---- MODULE Spec2Model ----
(***************************************************************************)
(* Model of the aviation dashboard repository:                             *)
(*   src/etl/etl_aviationstack.py   the ETL script (call_api,              *)
(*                                  flatten_flight, fetch_and_store)       *)
(*   src/app/streamlit_dashboard.py the Streamlit dashboard script         *)
(* The two programs share only the two artifacts under data/: the file     *)
(* flights.parquet and the table fact_flights of aviationstack.db.         *)
(***************************************************************************)
EXTENDS Integers, Sequences, FiniteSets, TLC

VARIABLES
    \* ---- flatten_flight applied to one raw record
    raw,            \* the raw record f handed to flatten_flight
    defects,        \* history: the defects raw has, in increasing order
    row,            \* what flatten_flight(f) gave: [ok, row]
    fpc,            \* "input" | "flattened" | "raised"
    \* ---- the ETL process (fetch_and_store)
    epc,            \* position in fetch_and_store
    estate,         \* "idle" | "running" | "failed" | "crashed" | "done"
    run,            \* number of ETL runs started so far
    limit,          \* parameter limit of the current run
    max_pages,      \* parameter max_pages of the current run
    ai,             \* index into airlines of the airline being fetched
    page,           \* loop variable page of the inner loop
    offset,         \* local offset
    airline_rows,   \* local airline_rows
    all_rows,       \* local all_rows
    etl_df,         \* local df of fetch_and_store
    log,            \* history: the requests and sleeps of the current run
    http_failed,    \* history: a request of the current run got a non-success status
    pre,            \* history: the artifacts as they were when the run started
    \* ---- the artifacts under data/
    parquet,        \* data/flights.parquet: Absent or [run, rows]
    sqlite,         \* data/aviationstack.db: Absent, EmptyDb or [run, rows]
    \* ---- the dashboard server process and its current script run
    dpc,            \* position in the dashboard script
    cache,          \* st.cache_data's entry for load_data: NoTable or a table
    df,             \* the script's df
    source,         \* history: where the current run's df came from, and what
                    \* load_data found when it was called
    sel,            \* the sidebar widgets' values
    filtered,       \* the script's filtered, as the index labels it keeps of df
    kpi,            \* the four metrics of the KPI block, and as displayed
    chart,          \* the bars of the Delay by Airline chart
    steps,          \* history: the blocks the current script run has executed
    sessions        \* number of script runs started so far

flat_vars == <<raw, defects, row, fpc>>
etl_vars == <<epc, estate, run, limit, max_pages, ai, page, offset, airline_rows,
              all_rows, etl_df, log, http_failed, pre>>
art_vars == <<parquet, sqlite>>
dash_vars == <<dpc, cache, df, source, sel, filtered, kpi, chart, steps, sessions>>
vars == <<flat_vars, etl_vars, art_vars, dash_vars>>

----------------------------------------------------------------------------
(* JSON values as the upstream API delivers them.  A string is the sequence *)
(* of its characters, so that parsing and lower-casing are computed.        *)

Null == [t |-> "null"]
Str(s) == [t |-> "str", s |-> s]
Num(n) == [t |-> "num", n |-> n]
List == [t |-> "list"]
Obj(o) == [t |-> "obj", o |-> o]

----------------------------------------------------------------------------
(* flatten_flight                                                           *)

\* The fields flatten_flight extracts, in the order it assigns them:
\* <<column, path>>.
FIELDS ==
    << <<"flight_date", <<"flight_date">> >>,
       <<"flight_status", <<"flight_status">> >>,
       <<"airline_name", <<"airline", "name">> >>,
       <<"airline_iata", <<"airline", "iata">> >>,
       <<"airline_icao", <<"airline", "icao">> >>,
       <<"flight_number", <<"flight", "number">> >>,
       <<"flight_iata", <<"flight", "iata">> >>,
       <<"flight_icao", <<"flight", "icao">> >>,
       <<"dep_airport", <<"departure", "airport">> >>,
       <<"dep_iata", <<"departure", "iata">> >>,
       <<"dep_icao", <<"departure", "icao">> >>,
       <<"dep_timezone", <<"departure", "timezone">> >>,
       <<"dep_terminal", <<"departure", "terminal">> >>,
       <<"dep_gate", <<"departure", "gate">> >>,
       <<"dep_delay", <<"departure", "delay">> >>,
       <<"dep_scheduled", <<"departure", "scheduled">> >>,
       <<"dep_estimated", <<"departure", "estimated">> >>,
       <<"dep_actual", <<"departure", "actual">> >>,
       <<"arr_airport", <<"arrival", "airport">> >>,
       <<"arr_iata", <<"arrival", "iata">> >>,
       <<"arr_icao", <<"arrival", "icao">> >>,
       <<"arr_timezone", <<"arrival", "timezone">> >>,
       <<"arr_terminal", <<"arrival", "terminal">> >>,
       <<"arr_gate", <<"arrival", "gate">> >>,
       <<"arr_baggage", <<"arrival", "baggage">> >>,
       <<"arr_delay", <<"arrival", "delay">> >>,
       <<"arr_scheduled", <<"arrival", "scheduled">> >>,
       <<"arr_estimated", <<"arrival", "estimated">> >>,
       <<"arr_actual", <<"arrival", "actual">> >>,
       <<"aircraft_registration", <<"aircraft", "registration">> >>,
       <<"aircraft_iata", <<"aircraft", "iata">> >>,
       <<"aircraft_icao", <<"aircraft", "icao">> >>,
       <<"aircraft_icao24", <<"aircraft", "icao24">> >>,
       <<"live_updated", <<"live", "updated">> >>,
       <<"live_latitude", <<"live", "latitude">> >>,
       <<"live_longitude", <<"live", "longitude">> >>,
       <<"live_altitude", <<"live", "altitude">> >>,
       <<"live_direction", <<"live", "direction">> >>,
       <<"live_speed_horizontal", <<"live", "speed_horizontal">> >>,
       <<"live_speed_vertical", <<"live", "speed_vertical">> >>,
       <<"live_is_ground", <<"live", "is_ground">> >> >>

FieldIndex == 1..Len(FIELDS)
Columns == {FIELDS[i][1] : i \in FieldIndex}
PathOf(c) == FIELDS[CHOOSE i \in FieldIndex : FIELDS[i][1] = c][2]

\* x[k] of Python: the value, or an exception (KeyError on an object without
\* the key, TypeError on null, a number, or a string or list indexed by a
\* string).
Subscript(x, k) ==
    IF x.t = "obj" /\ k \in DOMAIN x.o
    THEN [ok |-> TRUE, v |-> x.o[k]]
    ELSE [ok |-> FALSE, v |-> Null]

\* The loop "for k in keys: x = x[k]" of the inner get.
RECURSIVE Walk(_, _)
Walk(x, keys) ==
    IF keys = <<>> THEN [ok |-> TRUE, v |-> x]
    ELSE LET r == Subscript(x, Head(keys))
         IN IF r.ok THEN Walk(r.v, Tail(keys)) ELSE r

\* A get without its try/except: the exception leaves flatten_flight.
get_unguarded(d, keys) == Walk(d, keys)

\* The inner get(d, *keys): "except Exception: return None".
get(d, keys) ==
    LET r == Walk(d, keys)
    IN IF r.ok THEN r ELSE [ok |-> TRUE, v |-> Null]

\* f.get(key) of a dict: the value, or None when the key is absent.
DictGet(f, k) ==
    [ok |-> TRUE, v |-> IF k \in DOMAIN f.o THEN f.o[k] ELSE Null]

\* The right-hand side of the assignment to row[FIELDS[i][1]].
Extract(f, i) ==
    IF Len(FIELDS[i][2]) = 1 THEN DictGet(f, FIELDS[i][2][1])
    ELSE get(f, FIELDS[i][2])

flatten_flight(f) ==
    IF \A i \in FieldIndex : Extract(f, i).ok
    THEN [ok |-> TRUE,
          row |-> [c \in Columns |->
                     Extract(f, CHOOSE i \in FieldIndex : FIELDS[i][1] = c).v]]
    ELSE [ok |-> FALSE, row |-> <<>>]

----------------------------------------------------------------------------
(* Raw records: the inputs of flatten_flight                                *)

\* The four airlines fetch_and_store fetches, in the order it declares them.
airlines ==
    << [iata |-> <<"G", "A">>, name |-> <<"G", "a", "r", "u", "d", "a">>],
       [iata |-> <<"N", "H">>, name |-> <<"A", "N", "A">>],
       [iata |-> <<"E", "K">>, name |-> <<"E", "m", "i", "r", "a", "t", "e", "s">>],
       [iata |-> <<"T", "K">>, name |-> <<"T", "u", "r", "k", "i", "s", "h">>] >>

TopKeys == {FIELDS[i][2][1] : i \in FieldIndex}
Groups == {FIELDS[i][2][1] : i \in {j \in FieldIndex : Len(FIELDS[j][2]) = 2}}
LeafKeys(g) ==
    {FIELDS[i][2][2] : i \in {j \in FieldIndex : Len(FIELDS[j][2]) = 2 /\ FIELDS[j][2][1] = g}}
ColumnOf(path) == FIELDS[CHOOSE i \in FieldIndex : FIELDS[i][2] = path][1]

DayChars(d) ==
    <<"2", "0", "2", "4", "-", "0", "1", "-", "0",
      CASE d = 1 -> "1" [] d = 2 -> "2" [] d = 3 -> "3" [] OTHER -> "4">>

dt_cols == {"dep_scheduled", "dep_estimated", "dep_actual", "arr_scheduled",
            "arr_estimated", "arr_actual", "live_updated"}

\* The value of a leaf of a complete record of airline a: every leaf differs
\* from its siblings (a text of one symbol stands for an opaque text).
LeafValue(a, c) ==
    CASE c = "flight_date" -> Str(DayChars(1))
      [] c = "flight_status" -> Str(<<"s", "c", "h", "e", "d", "u", "l", "e", "d">>)
      [] c = "airline_name" -> Str(airlines[a].name)
      [] c = "airline_iata" -> Str(airlines[a].iata)
      [] c \in {"dep_delay", "arr_delay"} -> Num(10)
      [] c \in dt_cols -> Str(DayChars(1))
      [] OTHER -> Str(<<c>>)

\* A complete raw record of airline a, as the API documents it.
FullRecord(a) ==
    Obj([g \in TopKeys |->
           IF g \in Groups
           THEN Obj([l \in LeafKeys(g) |-> LeafValue(a, ColumnOf(<<g, l>>))])
           ELSE LeafValue(a, g)])

\* A record without key g, with another value at g, without g.l.
DropKey(f, g) == Obj([k \in DOMAIN f.o \ {g} |-> f.o[k]])
Reshape(f, g, v) == Obj([k \in DOMAIN f.o \cup {g} |-> IF k = g THEN v ELSE f.o[k]])
DropLeaf(f, g, l) ==
    IF g \in DOMAIN f.o /\ f.o[g].t = "obj"
    THEN Reshape(f, g, DropKey(f.o[g], l))
    ELSE f

GroupSeq == <<"airline", "flight", "departure", "arrival", "aircraft", "live">>
ShapeSeq == <<Null, Str(<<"x">>), List, Num(7)>>

\* The defects a record can have, numbered: defect i <= Len(FIELDS) removes
\* the last key of the path of FIELDS[i]; the later ones remove a group, or
\* put a value of the wrong shape in its place.
NumDefects == Len(FIELDS) + Len(GroupSeq) * (Len(ShapeSeq) + 1)

Damage(f, m) ==
    IF m <= Len(FIELDS)
    THEN (IF Len(FIELDS[m][2]) = 1 THEN DropKey(f, FIELDS[m][2][1])
          ELSE DropLeaf(f, FIELDS[m][2][1], FIELDS[m][2][2]))
    ELSE LET g == GroupSeq[((m - Len(FIELDS) - 1) \div (Len(ShapeSeq) + 1)) + 1]
             k == (m - Len(FIELDS) - 1) % (Len(ShapeSeq) + 1)
         IN IF k = 0 THEN DropKey(f, g) ELSE Reshape(f, g, ShapeSeq[k])

MaxDefects == 2

----------------------------------------------------------------------------
(* Idle values of the three parts of the state                              *)

Absent == [run |-> 0, rows |-> <<>>, kind |-> "absent"]
EmptyDb == [run |-> 0, rows |-> <<>>, kind |-> "emptydb"]
Stored(r, rows) == [run |-> r, rows |-> rows, kind |-> "table"]

NoTable == <<>>
NoSel == [date_range |-> <<>>, sel_airline |-> <<>>, sel_dep |-> <<>>,
          sel_arr |-> <<>>, delay_threshold |-> 0]
NoKpi == [total_flights |-> 0, cancelled_pct |-> <<0, 1>>, avg_arr_delay |-> <<0, 1>>,
          on_time_pct |-> <<0, 1>>, shown_cancelled |-> 0, shown_avg |-> 0,
          shown_on_time |-> 0]
NoSource == [from |-> "none", hit |-> FALSE, pq |-> FALSE, db |-> FALSE, fresh |-> TRUE]

FlatIdle == raw = Null /\ defects = <<>> /\ row = [ok |-> TRUE, row |-> <<>>] /\ fpc = "idle"

EtlIdle ==
    /\ epc = "start" /\ estate = "idle" /\ run = 0
    /\ limit = 0 /\ max_pages = 0 /\ ai = 0 /\ page = 0 /\ offset = 0
    /\ airline_rows = <<>> /\ all_rows = <<>> /\ etl_df = <<>>
    /\ log = <<>> /\ http_failed = FALSE
    /\ pre = [parquet |-> Absent, sqlite |-> Absent]

DashIdle ==
    /\ dpc = "idle" /\ cache = NoTable /\ df = NoTable /\ source = NoSource
    /\ sel = NoSel /\ filtered = <<>> /\ kpi = NoKpi /\ chart = {} /\ steps = <<>>
    /\ sessions = 0

----------------------------------------------------------------------------
(* The Writer's conversions (pandas), lines 145-157 of the ETL script       *)

NaN == [t |-> "nan"]
NaT == [t |-> "nat"]
Date(y, m, d) == [t |-> "date", y |-> y, m |-> m, d |-> d]
Timestamp(y, m, d) == [t |-> "ts", y |-> y, m |-> m, d |-> d]

Digit == <<"0", "1", "2", "3", "4", "5", "6", "7", "8", "9">>
IsDigit(c) == \E i \in 1..10 : Digit[i] = c
DigitVal(c) == (CHOOSE i \in 1..10 : Digit[i] = c) - 1
AllDigits(s) == s # <<>> /\ \A i \in 1..Len(s) : IsDigit(s[i])

RECURSIVE DigitsValue(_)
DigitsValue(s) ==
    IF s = <<>> THEN 0
    ELSE DigitsValue(SubSeq(s, 1, Len(s) - 1)) * 10 + DigitVal(s[Len(s)])

\* The number a text denotes, for the integer literals.
ParseInt(s) ==
    IF AllDigits(s) THEN [ok |-> TRUE, n |-> DigitsValue(s)]
    ELSE IF Len(s) > 1 /\ s[1] = "-" /\ AllDigits(Tail(s))
         THEN [ok |-> TRUE, n |-> 0 - DigitsValue(Tail(s))]
         ELSE [ok |-> FALSE, n |-> 0]

\* pd.to_numeric(x, errors='coerce') of one cell.
to_numeric(v) ==
    CASE v.t = "num" -> v
      [] v.t = "str" -> (IF ParseInt(v.s).ok THEN Num(ParseInt(v.s).n) ELSE NaN)
      [] OTHER -> NaN

DaysIn(y, m) ==
    CASE m \in {4, 6, 9, 11} -> 30
      [] m = 2 -> (IF y % 4 = 0 /\ (y % 100 # 0 \/ y % 400 = 0) THEN 29 ELSE 28)
      [] OTHER -> 31

MidnightChars == <<" ", "0", "0", ":", "0", "0", ":", "0", "0">>

\* The day a text denotes: YYYY-MM-DD, alone or followed by midnight.
ParseDay(s) ==
    IF /\ Len(s) >= 10
       /\ Len(s) = 10 \/ SubSeq(s, 11, Len(s)) = MidnightChars
       /\ s[5] = "-" /\ s[8] = "-"
       /\ AllDigits(SubSeq(s, 1, 4)) /\ AllDigits(SubSeq(s, 6, 7))
       /\ AllDigits(SubSeq(s, 9, 10))
    THEN LET y == DigitsValue(SubSeq(s, 1, 4))
             m == DigitsValue(SubSeq(s, 6, 7))
             d == DigitsValue(SubSeq(s, 9, 10))
         IN [ok |-> m \in 1..12 /\ d >= 1 /\ d <= DaysIn(y, m),
             y |-> y, m |-> m, d |-> d]
    ELSE [ok |-> FALSE, y |-> 0, m |-> 0, d |-> 0]

\* pd.to_datetime(x, errors='coerce') of one cell; a number counts the
\* nanoseconds since the epoch.
to_datetime(v) ==
    CASE v.t = "str" ->
            (IF ParseDay(v.s).ok
             THEN Timestamp(ParseDay(v.s).y, ParseDay(v.s).m, ParseDay(v.s).d)
             ELSE NaT)
      [] v.t = "num" -> Timestamp(1970, 1, 1)
      [] v.t = "date" -> Timestamp(v.y, v.m, v.d)
      [] v.t = "ts" -> v
      [] OTHER -> NaT

\* .dt.date of one cell.
dt_date(v) == IF v.t = "ts" THEN Date(v.y, v.m, v.d) ELSE NaT

OnTimeMinutes == 15

\* A derived flag that asks for a delay under the limit.
is_on_time_strict(x) == IF x.t = "num" /\ x.n < OnTimeMinutes THEN 1 ELSE 0

\* lambda x: 1 if pd.notna(x) and x <= 15 else 0
is_on_time(x) == IF x.t = "num" /\ x.n <= OnTimeMinutes THEN 1 ELSE 0

FrameColumns == Columns \cup {"is_on_time"}

\* One row of df after lines 145-157.
FrameRow(r) ==
    [c \in FrameColumns |->
        CASE c \in dt_cols -> to_datetime(r[c])
          [] c = "flight_date" -> dt_date(to_datetime(r[c]))
          [] c \in {"dep_delay", "arr_delay"} -> to_numeric(r[c])
          [] c = "is_on_time" -> Num(is_on_time(to_numeric(r["arr_delay"])))
          [] OTHER -> r[c]]

\* df after lines 145-157; df['flight_date'] raises KeyError when there is
\* no row, a frame without rows having no columns.
BuildFrame(rows) ==
    IF rows = <<>> THEN [ok |-> FALSE, df |-> <<>>]
    ELSE [ok |-> TRUE, df |-> [i \in 1..Len(rows) |-> FrameRow(rows[i])]]

RECURSIVE FormatInt(_, _)
FormatInt(n, width) ==
    IF width = 0 THEN <<>>
    ELSE Append(FormatInt(n \div 10, width - 1), Digit[(n % 10) + 1])

DayText(v) == FormatInt(v.y, 4) \o <<"-">> \o FormatInt(v.m, 2) \o <<"-">> \o FormatInt(v.d, 2)

\* What to_sql stores for one cell: dates and timestamps as text, the
\* missing values as NULL.
SqlCell(v) ==
    CASE v.t = "date" -> Str(DayText(v))
      [] v.t = "ts" -> Str(DayText(v) \o MidnightChars)
      [] v.t \in {"nan", "nat", "null"} -> Null
      [] OTHER -> v

SqlRows(t) == [i \in 1..Len(t) |-> [c \in DOMAIN t[i] |-> SqlCell(t[i][c])]]

----------------------------------------------------------------------------
(* call_api and fetch_and_store                                             *)

\* The HTTP statuses the upstream answers with.
Statuses == {200, 429, 500}

\* raise_for_status that lets client errors pass.
raise_for_status_5xx(status) == status >= 500 /\ status < 600

\* resp.raise_for_status(): raises on 4xx and 5xx.
raise_for_status(status) == status >= 400 /\ status < 600

\* A page test that also stops on a full page.
ShortPage_le(count, lim) == count <= lim

\* if count < limit: break
ShortPage(count, lim) == count < lim

\* A page step of one record.
NextOffset_one(off, lim) == off + 1

\* offset += limit
NextOffset(off, lim) == off + lim

\* for page in range(max_pages): whether another iteration follows page p.
LoopContinues(p, mp) == p + 1 < mp

\* The relational table first, the file after it.
SaveOrder_sql_first == <<"connect", "to_sql", "to_parquet">>

\* The "Save" block: to_parquet, sqlite3.connect, to_sql.
SaveOrder == <<"to_parquet", "connect", "to_sql">>

AfterSave(step) ==
    LET i == CHOOSE j \in 1..Len(SaveOrder) : SaveOrder[j] = step
    IN IF i < Len(SaveOrder) THEN SaveOrder[i + 1] ELSE "end"

\* The rows of one page: every record of data, flattened (lines 132-134).
PageRows(data) == [i \in 1..Len(data) |-> flatten_flight(data[i]).row]

\* fetch_and_store is called: lines 113-127 up to the first request.
StartRun(l, m) ==
    /\ estate # "running"
    /\ run' = run + 1 /\ estate' = "running"
    /\ limit' = l /\ max_pages' = m
    /\ ai' = 1 /\ page' = 0 /\ offset' = 0
    /\ airline_rows' = <<>> /\ all_rows' = <<>> /\ etl_df' = <<>>
    /\ log' = <<>> /\ http_failed' = FALSE
    /\ pre' = [parquet |-> parquet, sqlite |-> sqlite]
    /\ epc' = "request"
    /\ UNCHANGED <<flat_vars, art_vars, dash_vars>>

\* The inner loop of airline ai is left with rows collected: lines 142-143,
\* then the next airline (lines 124-127) or the end of the outer loop.
EndAirline(rows) ==
    /\ all_rows' = all_rows \o rows
    /\ airline_rows' = <<>> /\ offset' = 0 /\ page' = 0
    /\ IF ai < Len(airlines)
       THEN ai' = ai + 1 /\ epc' = "request"
       ELSE ai' = ai /\ epc' = "frame"

\* One iteration of the inner loop up to its sleep: lines 130-139.  The
\* upstream holds at most budget records in all, and answers a request for
\* airline a with records out of pool[a].
Request(budget, pool) ==
    /\ estate = "running" /\ epc = "request"
    /\ \E status \in Statuses, count \in 0..limit :
        /\ status = 200 \/ count = 0
        /\ Len(all_rows) + Len(airline_rows) + count <= budget
        /\ \E data \in [1..count -> pool[ai]] :
            /\ log' = Append(log, [op |-> "request", airline |-> ai, offset |-> offset,
                                   limit |-> limit, status |-> status, count |-> count])
            /\ http_failed' = (http_failed \/ status # 200)
            /\ IF raise_for_status(status)
               THEN /\ estate' = "error"
                    /\ UNCHANGED <<epc, ai, page, offset, airline_rows, all_rows>>
               ELSE /\ estate' = estate
                    /\ IF ShortPage(count, limit)
                       THEN EndAirline(airline_rows \o PageRows(data))
                       ELSE /\ airline_rows' = airline_rows \o PageRows(data)
                            /\ offset' = NextOffset(offset, limit)
                            /\ epc' = "sleep"
                            /\ UNCHANGED <<ai, page, all_rows>>
    /\ UNCHANGED <<run, limit, max_pages, etl_df, pre, flat_vars, art_vars, dash_vars>>

\* time.sleep(sleep_sec), line 140, and the loop header after it.
Sleep ==
    /\ estate = "running" /\ epc = "sleep"
    /\ log' = Append(log, [op |-> "sleep", airline |-> ai, offset |-> offset,
                           limit |-> limit, status |-> 0, count |-> 0])
    /\ IF LoopContinues(page, max_pages)
       THEN /\ page' = page + 1 /\ epc' = "request"
            /\ UNCHANGED <<ai, offset, airline_rows, all_rows>>
       ELSE EndAirline(airline_rows)
    /\ UNCHANGED <<estate, run, limit, max_pages, etl_df, http_failed, pre,
                   flat_vars, art_vars, dash_vars>>

\* Lines 145-157: the frame, the conversions and the derived column.
Frame ==
    /\ estate = "running" /\ epc = "frame"
    /\ IF BuildFrame(all_rows).ok
       THEN etl_df' = BuildFrame(all_rows).df /\ epc' = SaveOrder[1] /\ estate' = estate
       ELSE estate' = "error" /\ UNCHANGED <<etl_df, epc>>
    /\ UNCHANGED <<run, limit, max_pages, ai, page, offset, airline_rows, all_rows,
                   log, http_failed, pre, flat_vars, art_vars, dash_vars>>

Saved(step) ==
    /\ epc' = AfterSave(step)
    /\ estate' = IF AfterSave(step) = "end" THEN "done" ELSE estate
    /\ UNCHANGED <<run, limit, max_pages, ai, page, offset, airline_rows, all_rows,
                   etl_df, log, http_failed, pre, flat_vars, dash_vars>>

\* df.to_parquet(PARQUET_PATH, index=False), line 161
ToParquet ==
    /\ estate = "running" /\ epc = "to_parquet"
    /\ parquet' = Stored(run, etl_df)
    /\ sqlite' = sqlite
    /\ Saved("to_parquet")

\* sqlite3.connect(SQLITE_PATH), line 165: creates the store when absent.
Connect ==
    /\ estate = "running" /\ epc = "connect"
    /\ sqlite' = IF sqlite = Absent THEN EmptyDb ELSE sqlite
    /\ parquet' = parquet
    /\ Saved("connect")

\* df.to_sql('fact_flights', conn, if_exists='replace', index=False), line 166
ToSql ==
    /\ estate = "running" /\ epc = "to_sql"
    /\ sqlite' = Stored(run, SqlRows(etl_df))
    /\ parquet' = parquet
    /\ Saved("to_sql")

\* The process dies where it stands.
Crash ==
    /\ estate = "running"
    /\ estate' = "crashed"
    /\ UNCHANGED <<epc, run, limit, max_pages, ai, page, offset, airline_rows,
                   all_rows, etl_df, log, http_failed, pre, flat_vars, art_vars,
                   dash_vars>>

----------------------------------------------------------------------------
(* One ETL run, over what earlier runs left                                 *)

MaxLimit == 2
MaxPages == 3
MaxRecords == 6

\* The table an earlier run wrote: one flight of the first airline.
PrevTable == BuildFrame(<<flatten_flight(FullRecord(1)).row>>).df

\* Every run is a new process: only the artifacts outlive a run.  Before
\* the run there was none, or one that completed, or one that died between
\* its two writes.
Init ==
    /\ epc = "start" /\ estate = "idle"
    /\ limit = 0 /\ max_pages = 0 /\ ai = 0 /\ page = 0 /\ offset = 0
    /\ airline_rows = <<>> /\ all_rows = <<>> /\ etl_df = <<>>
    /\ log = <<>> /\ http_failed = FALSE
    /\ pre = [parquet |-> Absent, sqlite |-> Absent]
    /\ \/ run = 0 /\ parquet = Absent /\ sqlite = Absent
       \/ run = 1 /\ parquet = Stored(1, PrevTable)
                  /\ sqlite = Stored(1, SqlRows(PrevTable))
       \/ run = 1 /\ parquet = Stored(1, PrevTable) /\ sqlite = EmptyDb
    /\ FlatIdle /\ DashIdle

\* Complete records only.
FullPool(a) == {FullRecord(a)}

\* python etl_aviationstack.py with ETL_LIMIT and ETL_MAX_PAGES set.
StartOnce ==
    /\ estate = "idle"
    /\ \E l \in 1..MaxLimit, m \in 1..MaxPages : StartRun(l, m)

Next ==
    \/ StartOnce
    \/ Request(MaxRecords, [a \in DOMAIN airlines |-> FullPool(a)])
    \/ Sleep
    \/ Frame
    \/ ToParquet
    \/ Connect
    \/ ToSql
    \/ Crash

Spec == Init /\ [][Next]_vars

IsRequest(e) == e.op = "request"
Requests(a) == SelectSeq(log, LAMBDA e : e.op = "request" /\ e.airline = a)
FullPage(e) == e.op = "request" /\ e.status = 200 /\ e.count >= e.limit
\* The inner loop of airline a has been left.
Fetched(a) == estate # "idle" /\ (ai > a \/ epc \notin {"request", "sleep"})

\* C1: the requests of an airline are at offsets 0, limit, 2*limit, ...;
\* there are at most max_pages of them; every page but the last one requested
\* was full; and once the airline's loop is left, its last page was short or
\* was page max_pages.  Airlines are fetched in their declared order.
C1_PagingStops ==
    /\ \A a \in 1..Len(airlines) :
        LET R == Requests(a)
        IN /\ Len(R) <= max_pages
           /\ \A k \in 1..Len(R) : R[k].offset = (k - 1) * limit /\ R[k].limit = limit
           /\ \A k \in 1..(Len(R) - 1) : FullPage(R[k])
           /\ Fetched(a) =>
                /\ Len(R) >= 1
                /\ ~FullPage(R[Len(R)]) \/ Len(R) = max_pages
    /\ \A i, j \in 1..Len(log) :
        (i < j /\ IsRequest(log[i]) /\ IsRequest(log[j])) => log[i].airline <= log[j].airline

\* limit 2, max_pages 3, the first airline's second page has one record:
\* two requests, and the fetch has moved to the next airline.
C1_Witness ==
    /\ limit = 2 /\ max_pages = 3 /\ ai > 1
    /\ Len(Requests(1)) = 2
    /\ Requests(1)[1].count = 2 /\ Requests(1)[2].count = 1

\* C2: once a request of the run got a non-success status, the run has
\* ended with an error at that request, no request was repeated, and the
\* file and the table are as they were before the run.
C2_HttpFailureAborts ==
    http_failed =>
        /\ estate = "error" /\ epc = "request"
        /\ log[Len(log)].op = "request" /\ log[Len(log)].status # 200
        /\ \A i \in 1..(Len(log) - 1) : log[i].op = "request" => log[i].status = 200
        /\ \A i, j \in 1..Len(log) :
            (i < j /\ IsRequest(log[i]) /\ IsRequest(log[j]))
                => <<log[i].airline, log[i].offset>> # <<log[j].airline, log[j].offset>>
        /\ etl_df = <<>>
        /\ parquet = pre.parquet /\ sqlite = pre.sqlite

\* The failure comes at a later page of a later airline, with rows of
\* earlier airlines fetched and an earlier run's output on disk.
C2_Witness ==
    /\ http_failed /\ estate = "error"
    /\ ai >= 2 /\ offset > 0 /\ Len(all_rows) > 0 /\ Len(airline_rows) > 0
    /\ parquet = Stored(1, PrevTable) /\ sqlite = Stored(1, SqlRows(PrevTable))

\* C9 as stated: after a sleep comes a request of the same airline; no sleep
\* stands between two airlines or after the last request of the run.
C9_SleepOnlyWithinAirline ==
    \A i \in 1..Len(log) :
        log[i].op = "sleep" =>
            IF i < Len(log)
            THEN log[i + 1].op = "request" /\ log[i + 1].airline = log[i].airline
            ELSE epc = "request" /\ ai = log[i].airline

\* C9 as amended: a sleep follows a request exactly when that request's page
\* was full (at least limit records), the page max_pages of an airline
\* included; no sleep follows a short page or a failed request.
C9_SleepAfterEveryFullPage ==
    \A i \in 1..Len(log) :
        /\ log[i].op = "sleep" => (i > 1 /\ FullPage(log[i - 1]))
        /\ FullPage(log[i]) =>
            IF i < Len(log) THEN log[i + 1].op = "sleep" ELSE epc = "sleep"

\* An airline ends on a full page max_pages: a sleep, then the next airline.
C9_Witness ==
    \E i \in 2..(Len(log) - 1) :
        /\ log[i].op = "sleep" /\ FullPage(log[i - 1])
        /\ log[i + 1].op = "request" /\ log[i + 1].airline # log[i].airline

----------------------------------------------------------------------------
(* Runs after runs, each of which may die at any step                       *)

MaxRuns == 2

InitRuns == EtlIdle /\ parquet = Absent /\ sqlite = Absent /\ FlatIdle /\ DashIdle

\* ETL_LIMIT=1 ETL_MAX_PAGES=1 python etl_aviationstack.py, again and again.
StartAgain ==
    /\ run < MaxRuns
    /\ StartRun(1, 1)

NextRuns ==
    \/ StartAgain
    \/ Request(MaxRecords, [a \in DOMAIN airlines |-> FullPool(a)])
    \/ Sleep
    \/ Frame
    \/ ToParquet
    \/ Connect
    \/ ToSql
    \/ Crash

SpecRuns == InitRuns /\ [][NextRuns]_vars

\* The table an artifact holds, if any.
TableOf(x) == IF x.kind = "table" THEN <<x.run, x.rows>> ELSE <<>>
Between == estate \in {"running", "crashed"} /\ epc \in {"connect", "to_sql"}

\* C10: the table never holds the data of a later run than the file; what
\* a run writes is its own frame and nothing else; and between the two
\* writes (where a crash leaves the run) the file holds the run's frame
\* while fact_flights is what it was before the run.
C10_FileBeforeTable ==
    /\ sqlite.run <= parquet.run
    /\ (parquet.kind = "table" /\ parquet.run = run /\ estate # "idle")
           => parquet.rows = etl_df
    /\ (sqlite.kind = "table" /\ sqlite.run = run /\ estate # "idle")
           => sqlite.rows = SqlRows(etl_df) /\ parquet = Stored(run, etl_df)
    /\ Between =>
        /\ parquet = Stored(run, etl_df)
        /\ TableOf(sqlite) = TableOf(pre.sqlite)

\* The second run died between its writes: the file is the second run's,
\* the table the first run's.
C10_Witness ==
    /\ estate = "crashed" /\ Between /\ run = 2
    /\ parquet.run = 2 /\ sqlite.kind = "table" /\ sqlite.run = 1
    /\ parquet.rows # pre.parquet.rows

----------------------------------------------------------------------------
(* One ETL run over records whose arrival delay varies                      *)

SetLeaf(f, g, l, v) ==
    Reshape(f, g, Obj([k \in DOMAIN f.o[g].o \cup {l} |-> IF k = l THEN v ELSE f.o[g].o[k]]))

\* What the upstream gives as arrival.delay: nothing, null, a number, a
\* numeral, a text that is no number.
DelayValues ==
    {Null, Num(15), Num(16), Str(<<"1", "5">>), Str(<<"-", "5">>),
     Str(<<"n", "/", "a">>)}

DelayPool(a) ==
    {SetLeaf(FullRecord(a), "arrival", "delay", v) : v \in DelayValues}
    \cup {DropKey(FullRecord(a), "arrival")}

InitWriter == EtlIdle /\ parquet = Absent /\ sqlite = Absent /\ FlatIdle /\ DashIdle

\* ETL_LIMIT=1 ETL_MAX_PAGES=1 python etl_aviationstack.py
StartSmall ==
    /\ estate = "idle"
    /\ StartRun(1, 1)

NextWriter ==
    \/ StartSmall
    \/ Request(MaxRecords, [a \in DOMAIN airlines |-> DelayPool(a)])
    \/ Sleep
    \/ Frame
    \/ ToParquet
    \/ Connect
    \/ ToSql

SpecWriter == InitWriter /\ [][NextWriter]_vars

\* The flag of a persisted row agrees with its persisted arrival delay.
FlagAgrees(r, missing) ==
    /\ r["is_on_time"] \in {Num(0), Num(1)}
    /\ r["is_on_time"] = Num(1) <=> (r["arr_delay"].t = "num" /\ r["arr_delay"].n <= 15)
    /\ r["arr_delay"].t \in {"num", missing}

\* C4: in the file and in fact_flights, every row's is_on_time is 1 exactly
\* when its arrival delay, as converted by to_numeric from what the record
\* held, is a number <= 15, and 0 otherwise (no delay, or not a number).
C4_OnTimeFlag ==
    /\ parquet.kind = "table" =>
        /\ Len(parquet.rows) = Len(all_rows)
        /\ \A i \in 1..Len(parquet.rows) :
            /\ FlagAgrees(parquet.rows[i], "nan")
            /\ parquet.rows[i]["arr_delay"] = to_numeric(all_rows[i]["arr_delay"])
    /\ sqlite.kind = "table" =>
        /\ Len(sqlite.rows) = Len(all_rows)
        /\ \A i \in 1..Len(sqlite.rows) :
            /\ FlagAgrees(sqlite.rows[i], "null")
            /\ sqlite.rows[i]["arr_delay"] = SqlCell(to_numeric(all_rows[i]["arr_delay"]))

\* Written: a delay of 15 (flag 1), of 16 (flag 0), a numeral "15" (flag 1)
\* and a record without arrival (flag 0).
C4_Witness ==
    /\ estate = "done" /\ Len(sqlite.rows) = 4
    /\ all_rows[1]["arr_delay"] = Num(15) /\ sqlite.rows[1]["is_on_time"] = Num(1)
    /\ all_rows[2]["arr_delay"] = Num(16) /\ sqlite.rows[2]["is_on_time"] = Num(0)
    /\ all_rows[3]["arr_delay"] = Str(<<"1", "5">>) /\ parquet.rows[3]["is_on_time"] = Num(1)
    /\ all_rows[4]["arr_delay"] = Null /\ parquet.rows[4]["arr_delay"] = NaN
    /\ parquet.rows[4]["is_on_time"] = Num(0)

----------------------------------------------------------------------------
(* The dashboard script                                                     *)

IsMissing(v) == v.t \in {"nan", "nat", "null"}
All == Str(<<"A", "l", "l">>)

\* The relational store before the file.
LoadBranch_sql_first(pq_exists, db_exists) ==
    IF db_exists THEN "sqlite" ELSE IF pq_exists THEN "parquet" ELSE "stop"

\* The if / elif / else of load_data, lines 21-29.
LoadBranch(pq_exists, db_exists) ==
    IF pq_exists THEN "parquet" ELSE IF db_exists THEN "sqlite" ELSE "stop"

Exists(x) == x.kind # "absent"

\* pd.read_sql('SELECT * FROM fact_flights', conn, parse_dates=[...]), line 25
read_sql(rows) ==
    [i \in 1..Len(rows) |->
        [c \in DOMAIN rows[i] |->
            IF c \in dt_cols THEN to_datetime(rows[i][c]) ELSE rows[i][c]]]

\* The body of load_data, lines 21-30: read_sql raises when the store has
\* no table fact_flights.
load_data_body(pq, db) ==
    LET b == LoadBranch(Exists(pq), Exists(db))
    IN CASE b = "parquet" -> [outcome |-> "ok", df |-> pq.rows, from |-> b]
         [] b = "sqlite" ->
              (IF db.kind = "table"
               THEN [outcome |-> "ok", df |-> read_sql(db.rows), from |-> b]
               ELSE [outcome |-> "error", df |-> NoTable, from |-> b])
         [] OTHER -> [outcome |-> "stop", df |-> NoTable, from |-> "none"]

\* load_data() under @st.cache_data: what an earlier call returned is
\* returned again, and the body does not run.
load_data(c, pq, db) ==
    IF c # NoTable THEN [outcome |-> "ok", df |-> c, from |-> "cache"]
    ELSE load_data_body(pq, db)

Ord(v) == v.y * 10000 + v.m * 100 + v.d
RowIndex(t) == [i \in 1..Len(t) |-> i]
FlightDays(t) ==
    {to_datetime(t[i]["flight_date"]) : i \in 1..Len(t)} \ {NaT}
min_date(t) == CHOOSE d \in FlightDays(t) : \A e \in FlightDays(t) : Ord(d) <= Ord(e)
max_date(t) == CHOOSE d \in FlightDays(t) : \A e \in FlightDays(t) : Ord(d) >= Ord(e)
NextDay(v) ==
    IF v.d < DaysIn(v.y, v.m) THEN Timestamp(v.y, v.m, v.d + 1)
    ELSE IF v.m < 12 THEN Timestamp(v.y, v.m + 1, 1)
         ELSE Timestamp(v.y + 1, 1, 1)

RECURSIVE DaysFrom(_, _)
DaysFrom(d, last) == IF Ord(d) >= Ord(last) THEN {d} ELSE {d} \cup DaysFrom(NextDay(d), last)

\* The ranges the date_input offers: start <= end between min_date and
\* max_date; without any flight date both bounds are NaT.
DateRanges(t) ==
    IF FlightDays(t) = {} THEN {<<NaT, NaT>>}
    ELSE LET days == DaysFrom(min_date(t), max_date(t))
         IN {<<dt_date(r[1]), dt_date(r[2])>> :
               r \in {q \in days \X days : Ord(q[1]) <= Ord(q[2])}}

\* The options of a selectbox: 'All' and the values of the column (dropna).
Options(t, c) == {All} \cup {t[i][c] : i \in {j \in 1..Len(t) : ~IsMissing(t[j][c])}}

\* The positions of the slider the model moves it to (0..240, default 15).
SliderValues == {0, 15}

\* Line 59: the mask of the date range, for row i.
DateMask(t, i, dr) ==
    LET d == to_datetime(t[i]["flight_date"])
        lo == to_datetime(dr[1])
        hi == to_datetime(dr[2])
    IN /\ d.t = "ts" /\ lo.t = "ts" /\ hi.t = "ts"
       /\ Ord(d) >= Ord(lo) /\ Ord(d) <= Ord(hi)

ByDate(t, idx, dr) == SelectSeq(idx, LAMBDA i : DateMask(t, i, dr))

\* A selection that is taken from df, not from what is filtered so far.
ByColumn_of_df(t, idx, c, choice) ==
    IF choice # All THEN SelectSeq(RowIndex(t), LAMBDA i : t[i][c] = choice) ELSE idx

\* if sel != 'All': filtered = filtered[filtered[c] == sel], lines 61-66
ByColumn(t, idx, c, choice) ==
    IF choice # All THEN SelectSeq(idx, LAMBDA i : t[i][c] = choice) ELSE idx

FilterStep(name, t, idx, s) ==
    CASE name = "date" -> ByDate(t, idx, s.date_range)
      [] name = "airline" -> ByColumn(t, idx, "airline_name", s.sel_airline)
      [] name = "dep" -> ByColumn(t, idx, "dep_iata", s.sel_dep)
      [] OTHER -> ByColumn(t, idx, "arr_iata", s.sel_arr)

RECURSIVE ApplyFilters(_, _, _, _)
ApplyFilters(order, t, idx, s) ==
    IF order = <<>> THEN idx
    ELSE ApplyFilters(Tail(order), t, FilterStep(Head(order), t, idx, s), s)

\* Lines 58-66: the filters in the order the script applies them.
Filtering(t, s) == ApplyFilters(<<"date", "airline", "dep", "arr">>, t, RowIndex(t), s)

UpperCase == <<"A", "B", "C", "D", "E", "F", "G", "H", "I", "J", "K", "L", "M",
               "N", "O", "P", "Q", "R", "S", "T", "U", "V", "W", "X", "Y", "Z">>
LowerCase == <<"a", "b", "c", "d", "e", "f", "g", "h", "i", "j", "k", "l", "m",
               "n", "o", "p", "q", "r", "s", "t", "u", "v", "w", "x", "y", "z">>
lower(s) ==
    [i \in 1..Len(s) |->
        IF \E k \in 1..26 : UpperCase[k] = s[i]
        THEN LowerCase[CHOOSE k \in 1..26 : UpperCase[k] = s[i]]
        ELSE s[i]]

\* .str.lower().eq('cancelled') of one cell
IsCancelled(v) == v.t = "str" /\ lower(v.s) = <<"c", "a", "n", "c", "e", "l", "l", "e", "d">>

\* Only the known delays count as on time.
OnTime_known(v, thr) == v.t = "num" /\ v.n <= thr

\* (filtered['arr_delay'].fillna(0) <= delay_threshold) of one cell
OnTime(v, thr) == (IF IsMissing(v) THEN 0 ELSE v.n) <= thr

RECURSIVE SumDelays(_, _)
SumDelays(t, idx) ==
    IF idx = <<>> THEN 0 ELSE t[Head(idx)]["arr_delay"].n + SumDelays(t, Tail(idx))

\* round(n / d) to the nearest integer, ties to even, for n >= 0 (how
\* f"{x:.1f}" rounds a value that is exact).
RoundHalfEven(n, d) ==
    LET q == n \div d
        r == n % d
    IN IF 2 * r < d THEN q
       ELSE IF 2 * r > d THEN q + 1
            ELSE IF q % 2 = 0 THEN q ELSE q + 1

\* Lines 72-82: the metrics as fractions <<numerator, denominator>>, and as
\* displayed: hundredths of cancelled_pct, tenths of the other two.
Kpis(t, idx, thr) ==
    LET total_flights == Len(idx)
        den == IF total_flights # 0 THEN total_flights ELSE 1
        cancelled == Len(SelectSeq(idx, LAMBDA i : IsCancelled(t[i]["flight_status"])))
        known == SelectSeq(idx, LAMBDA i : ~IsMissing(t[i]["arr_delay"]))
        avg == IF known # <<>> THEN <<SumDelays(t, known), Len(known)>> ELSE <<0, 1>>
        on_time == Len(SelectSeq(idx, LAMBDA i : OnTime(t[i]["arr_delay"], thr)))
    IN [total_flights |-> total_flights,
        cancelled_pct |-> <<100 * cancelled, den>>,
        avg_arr_delay |-> avg,
        on_time_pct |-> <<100 * on_time, den>>,
        shown_cancelled |-> RoundHalfEven(100 * 100 * cancelled, den),
        shown_avg |-> RoundHalfEven(10 * avg[1], avg[2]),
        shown_on_time |-> RoundHalfEven(10 * 100 * on_time, den)]

\* Line 92: the mean arrival delay of every airline name of filtered that
\* has a known delay (groupby drops the missing names, dropna the airlines
\* without a mean); the order of the bars is not represented.
delay_by_airline(t, idx) ==
    LET names == {t[idx[k]]["airline_name"] :
                    k \in {j \in 1..Len(idx) : ~IsMissing(t[idx[j]]["airline_name"])}}
        known(a) == SelectSeq(idx, LAMBDA i : t[i]["airline_name"] = a
                                              /\ ~IsMissing(t[i]["arr_delay"]))
    IN {[airline_name |-> a, arr_delay |-> <<SumDelays(t, known(a)), Len(known(a))>>] :
          a \in {b \in names : known(b) # <<>>}}

\* Lines 93-95: fig_airline_delay is assigned only when there is a bar;
\* st.plotly_chart(fig_airline_delay) raises NameError when it was not.
ChartRendered(bars) == bars # {}

AllSteps == <<"load", "sidebar", "filter", "kpi", "histogram", "chart">>

\* One run of the script, top to bottom, with the widgets as the user has
\* set them.
ScriptRun ==
    LET ld == load_data(cache, parquet, sqlite)
        found == [from |-> ld.from, hit |-> cache # NoTable,
                  pq |-> Exists(parquet), db |-> Exists(sqlite),
                  fresh |-> IF parquet.kind = "table" THEN ld.df = parquet.rows
                            ELSE IF sqlite.kind = "table" THEN ld.df = read_sql(sqlite.rows)
                            ELSE ld.outcome # "ok"]
    IN /\ sessions' = sessions + 1
       /\ source' = found
       /\ df' = ld.df
       /\ IF ld.outcome # "ok"
          THEN /\ dpc' = IF ld.outcome = "stop" THEN "stopped" ELSE "crashed"
               /\ steps' = <<"load">>
               /\ sel' = NoSel /\ filtered' = <<>> /\ kpi' = NoKpi /\ chart' = {}
               /\ cache' = cache
          ELSE /\ cache' = ld.df
               /\ \/ \* what date_input does with bounds that are NaT is not the
                     \* script's to decide: it may raise
                     /\ FlightDays(ld.df) = {}
                     /\ dpc' = "crashed" /\ steps' = <<"load", "sidebar">>
                     /\ sel' = NoSel /\ filtered' = <<>> /\ kpi' = NoKpi /\ chart' = {}
                  \/ \E dr \in DateRanges(ld.df),
                        a \in Options(ld.df, "airline_name"),
                        d \in Options(ld.df, "dep_iata"),
                        r \in Options(ld.df, "arr_iata"),
                        thr \in SliderValues :
                       LET s == [date_range |-> dr, sel_airline |-> a, sel_dep |-> d,
                                 sel_arr |-> r, delay_threshold |-> thr]
                           f == Filtering(ld.df, s)
                           bars == delay_by_airline(ld.df, f)
                       IN /\ sel' = s
                          /\ filtered' = f
                          /\ kpi' = Kpis(ld.df, f, thr)
                          /\ chart' = bars
                          /\ steps' = AllSteps
                          /\ dpc' = IF ChartRendered(bars) THEN "done" ELSE "crashed"
       /\ UNCHANGED <<flat_vars, etl_vars, art_vars>>

----------------------------------------------------------------------------
(* One script run over the tables an ETL run can have written               *)

\* A record as the upstream gives it for a scheduled flight: no aircraft,
\* no live data, and null where it knows nothing.
SparseRecord(a, day, dep, arr, delay, status) ==
    Obj([g \in {"flight_date", "flight_status", "airline", "departure", "arrival", "live"} |->
          CASE g = "flight_date" -> day
            [] g = "flight_status" -> status
            [] g = "airline" -> Obj([l \in {"name", "iata"} |->
                                       Str(IF l = "name" THEN airlines[a].name
                                           ELSE airlines[a].iata)])
            [] g = "departure" -> Obj([l \in {"iata"} |-> dep])
            [] g = "arrival" -> Obj([l \in {"iata", "delay"} |->
                                       IF l = "iata" THEN arr ELSE delay])
            [] OTHER -> Null])

\* The row of df the ETL makes of a record.
RowOf(f) == FrameRow(flatten_flight(f).row)

Scheduled == Str(<<"s", "c", "h", "e", "d", "u", "l", "e", "d">>)
Cancelled == Str(<<"C", "a", "n", "c", "e", "l", "l", "e", "d">>)
DXB == Str(<<"D", "X", "B">>)
CGK == Str(<<"C", "G", "K">>)
HND == Str(<<"H", "N", "D">>)

\* Rows that differ in what the filters look at: two airlines, two days,
\* and three routes of which one has no arrival airport.
FilterAirlines == <<3, 2>>
FilterDays == <<Str(DayChars(1)), Str(DayChars(2))>>
FilterRoutes == <<<<DXB, CGK>>, <<DXB, Null>>, <<CGK, CGK>>>>
FilterRows ==
    [k \in 1..12 |->
        RowOf(SparseRecord(FilterAirlines[((k - 1) % 2) + 1],
                           FilterDays[(((k - 1) \div 2) % 2) + 1],
                           FilterRoutes[(((k - 1) \div 4) % 3) + 1][1],
                           FilterRoutes[(((k - 1) \div 4) % 3) + 1][2],
                           Num(10), Scheduled))]

\* Rows that differ in what the metrics and the chart look at: a flight
\* that arrived 10 or 30 minutes late, or was cancelled and has no delay,
\* and one without flight date.
KpiDelays == <<Num(10), Null, Num(30)>>
KpiRows ==
    [k \in 1..6 |->
        RowOf(SparseRecord(FilterAirlines[(((k - 1) \div 3) % 2) + 1],
                           Str(DayChars(1)), DXB, HND,
                           KpiDelays[((k - 1) % 3) + 1],
                           IF KpiDelays[((k - 1) % 3) + 1] = Null
                           THEN Cancelled ELSE Scheduled))]
    \o <<RowOf(SparseRecord(2, Null, DXB, HND, Null, Cancelled))>>

MaxFilterRows == 2
MaxKpiRows == 3

\* The tables of at most n rows out of rows, up to the order of the rows.
TablesOf(rows, n) ==
    UNION {{[i \in 1..m |-> rows[ix[i]]] :
              ix \in {f \in [1..m -> 1..Len(rows)] : \A i \in 1..(m - 1) : f[i] <= f[i + 1]}} :
           m \in 1..n}

\* The ETL process has ended; only its artifacts are left.
EtlGone ==
    /\ epc = "end" /\ estate = "done" /\ run = 1
    /\ limit = 0 /\ max_pages = 0 /\ ai = 0 /\ page = 0 /\ offset = 0
    /\ airline_rows = <<>> /\ all_rows = <<>> /\ etl_df = <<>>
    /\ log = <<>> /\ http_failed = FALSE
    /\ pre = [parquet |-> Absent, sqlite |-> Absent]

\* An ETL run has written table t; the file is there, or only the store.
Written(t) ==
    /\ EtlGone /\ FlatIdle /\ DashIdle
    /\ sqlite = Stored(1, SqlRows(t))
    /\ parquet \in {Stored(1, t), Absent}

InitFilter == \E t \in TablesOf(FilterRows, MaxFilterRows) : Written(t)

InitKpi == \E t \in TablesOf(KpiRows, MaxKpiRows) : Written(t)

\* streamlit run streamlit_dashboard.py, and the browser opens the page.
FirstRun == dpc = "idle" /\ ScriptRun

NextDash == FirstRun

SpecFilter == InitFilter /\ [][NextDash]_vars

SpecKpi == InitKpi /\ [][NextDash]_vars

FilterNames == {"date", "airline", "dep", "arr"}
FilterOrders == {o \in [1..4 -> FilterNames] : \A i, j \in 1..4 : o[i] = o[j] => i = j}

\* Row i satisfies the date range and every categorical filter not at 'All'.
Passes(t, i, s) ==
    /\ DateMask(t, i, s.date_range)
    /\ s.sel_airline = All \/ t[i]["airline_name"] = s.sel_airline
    /\ s.sel_dep = All \/ t[i]["dep_iata"] = s.sel_dep
    /\ s.sel_arr = All \/ t[i]["arr_iata"] = s.sel_arr

Ran(step) == \E i \in 1..Len(steps) : steps[i] = step

\* C6: filtered is exactly the rows of df that satisfy the date range and
\* every categorical filter not at 'All', and the four filters applied in
\* any of their 24 orders give that same subset.
C6_FilterConjunctive ==
    Ran("filter") =>
        /\ filtered = SelectSeq(RowIndex(df), LAMBDA i : Passes(df, i, sel))
        /\ \A o \in FilterOrders : ApplyFilters(o, df, RowIndex(df), sel) = filtered

\* All four filters are set, one row passes and one does not.
C6_Witness ==
    /\ Ran("filter") /\ Len(df) = 2 /\ Len(filtered) = 1
    /\ sel.sel_airline # All /\ sel.sel_dep # All /\ sel.sel_arr # All
    /\ sel.date_range[1] = sel.date_range[2]
    /\ \E i \in 1..2 : DateMask(df, i, sel.date_range) /\ ~Passes(df, i, sel)

Scenario7 ==
    /\ Ran("kpi") /\ sel.delay_threshold = 15 /\ Len(filtered) = 3
    /\ df[filtered[1]]["arr_delay"] = Num(10)
    /\ IsMissing(df[filtered[2]]["arr_delay"])
    /\ df[filtered[3]]["arr_delay"] = Num(30)

\* C7 as stated: with arrival delays [10, null, 30] and the slider at 15,
\* the on-time percentage is 1 of 3 (33.3) and the mean delay 20.0.
C7_OneOfThree ==
    Scenario7 =>
        /\ kpi.on_time_pct = <<100 * 1, 3>> /\ kpi.shown_on_time = 333
        /\ kpi.avg_arr_delay = <<40, 2>> /\ kpi.shown_avg = 200

\* C7 as amended: the null delay, taken as 0, is within the threshold and
\* counts as on time: 2 of 3 (66.7); the mean delay, over the two known
\* delays, is 20.0.
C7_TwoOfThree ==
    Scenario7 =>
        /\ kpi.on_time_pct = <<100 * 2, 3>> /\ kpi.shown_on_time = 667
        /\ kpi.avg_arr_delay = <<40, 2>> /\ kpi.shown_avg = 200

\* The scenario, with the airline filter at Emirates.
C7_Witness == Scenario7 /\ sel.sel_airline = Str(airlines[3].name) /\ kpi.total_flights = 3

\* C8: when no airline of filtered has a known arrival delay, the chart
\* block still completes.
C8_ChartNeverRaises ==
    (Ran("chart") /\ \A k \in 1..Len(filtered) : IsMissing(df[filtered[k]]["arr_delay"]))
        => dpc = "done"

----------------------------------------------------------------------------
(* Script runs while an ETL run writes                                      *)

MaxSessions == 2

\* What the ETL run at hand has fetched: one flight of the second airline.
NewRows == <<flatten_flight(FullRecord(2)).row>>

\* An ETL run with limit 1 and max_pages 1 has left its loops with one row
\* and is about to build its frame; an earlier run has left its output, or
\* only one of the two artifacts is there, or none.
InitLoad ==
    /\ epc = "frame" /\ estate = "running" /\ run = 2
    /\ limit = 1 /\ max_pages = 1 /\ ai = 4 /\ page = 0 /\ offset = 0
    /\ airline_rows = <<>> /\ all_rows = NewRows /\ etl_df = <<>>
    /\ log = [a \in 1..4 |-> [op |-> "request", airline |-> a, offset |-> 0, limit |-> 1,
                              status |-> 200, count |-> IF a = 2 THEN 1 ELSE 0]]
           \o <<[op |-> "sleep", airline |-> 2, offset |-> 1, limit |-> 1,
                 status |-> 0, count |-> 0]>>
    /\ http_failed = FALSE
    /\ parquet \in {Absent, Stored(1, PrevTable)}
    /\ sqlite \in {Absent, Stored(1, SqlRows(PrevTable))}
    /\ pre = [parquet |-> parquet, sqlite |-> sqlite]
    /\ FlatIdle /\ DashIdle

\* The page is opened, reloaded, or a widget is moved.
AnyRun == sessions < MaxSessions /\ ScriptRun

NextLoad ==
    \/ Frame
    \/ ToParquet
    \/ Connect
    \/ ToSql
    \/ Crash
    \/ AnyRun

SpecLoad == InitLoad /\ [][NextLoad]_vars

\* What C5 says of a load: the table shown is what the file holds when the
\* file is there, the fact_flights table is read only when the file is not
\* there and the store is, and without both the run halts after the load.
AsClaimed ==
    /\ source.pq => (source.fresh /\ source.from # "sqlite" /\ dpc # "stopped")
    /\ source.from = "sqlite" => (~source.pq /\ source.db /\ dpc # "stopped")
    /\ (~source.pq /\ ~source.db) => (dpc = "stopped" /\ steps = <<"load">> /\ df = NoTable)

----------------------------------------------------------------------------
(* flatten_flight on damaged records                                        *)

InitFlatten ==
    /\ raw = FullRecord(3) /\ defects = <<>>
    /\ row = [ok |-> TRUE, row |-> <<>>] /\ fpc = "input"
    /\ EtlIdle /\ DashIdle /\ parquet = Absent /\ sqlite = Absent

\* The upstream delivers a record with one more defect.
DamageRecord ==
    /\ fpc = "input" /\ Len(defects) < MaxDefects
    /\ \E m \in 1..NumDefects :
        /\ IF defects = <<>> THEN TRUE ELSE m > defects[Len(defects)]
        /\ raw' = Damage(raw, m)
        /\ defects' = Append(defects, m)
    /\ UNCHANGED <<row, fpc, etl_vars, art_vars, dash_vars>>

\* row = flatten_flight(f)
Flatten ==
    /\ fpc = "input"
    /\ row' = flatten_flight(raw)
    /\ fpc' = IF flatten_flight(raw).ok THEN "flattened" ELSE "raised"
    /\ UNCHANGED <<raw, defects, etl_vars, art_vars, dash_vars>>

NextFlatten == DamageRecord \/ Flatten

SpecFlatten == InitFlatten /\ [][NextFlatten]_vars

\* What the record holds at the path of column c: the value when every
\* intermediate key is present and every intermediate value an object.
Held(f, c) ==
    LET p == PathOf(c)
    IN IF Len(p) = 1
       THEN (IF p[1] \in DOMAIN f.o THEN f.o[p[1]] ELSE Null)
       ELSE IF /\ p[1] \in DOMAIN f.o
               /\ f.o[p[1]].t = "obj"
               /\ p[2] \in DOMAIN f.o[p[1]].o
            THEN f.o[p[1]].o[p[2]]
            ELSE Null

\* C3: flatten_flight never raises on a raw record, and every column of the
\* row holds the value the record has at the column's path, or null when an
\* intermediate key is missing or an intermediate value is not an object;
\* the other columns are unaffected.
C3_FlattenNullOnMiss ==
    fpc # "input" =>
        /\ fpc = "flattened"
        /\ row.ok
        /\ DOMAIN row.row = Columns
        /\ \A c \in Columns : row.row[c] = Held(raw, c)

\* A record with a group of the wrong shape and a key missing in another
\* group, flattened: those columns are null, the others are not.
C3_Witness ==
    /\ fpc = "flattened"
    /\ "arrival" \in DOMAIN raw.o /\ raw.o["arrival"].t # "obj"
    /\ "departure" \in DOMAIN raw.o /\ raw.o["departure"].t = "obj"
    /\ "gate" \notin DOMAIN raw.o["departure"].o
    /\ row.row["arr_delay"] = Null /\ row.row["dep_gate"] = Null
    /\ row.row["dep_iata"] = Str(<<"dep_iata">>)
    /\ row.row["airline_name"] = Str(airlines[3].name)

====
